---- MODULE Spec2Model ----
(***************************************************************************)
(* Chekaru Voice Generator (src/chekaru_voice_generator.py).               *)
(*                                                                         *)
(* Three parts of the program are modelled:                                *)
(*   - the voice catalog resolver (fetch_community_voices,                 *)
(*     get_voice_catalog), specification SpecCatalog;                      *)
(*   - the text splitting of generate_voice (str.strip followed by         *)
(*     textwrap.wrap(text, width=250)), specification SpecWrap;            *)
(*   - the Generate / Preview handlers of show_main_ui and the background  *)
(*     threads they start, specifications Spec and FairSpec.               *)
(***************************************************************************)
EXTENDS Integers, Sequences, FiniteSets, TLC

VARIABLES
    \* ---- voice catalog resolver ----
    response,       \* what requests.get(url, timeout=10) produces
    cpc,            \* position in get_voice_catalog: "fetch", "merge", "done"
    remote_voices,  \* return value of fetch_community_voices()
    catalog,        \* return value of get_voice_catalog()
    printed,        \* lines written by print(), in order
    escaped,        \* TRUE iff an exception left get_voice_catalog
    \* ---- text splitting ----
    wtext,          \* content of the text box
    wpc,            \* "input", "accepted", "rejected", "split"
    wprompt,        \* text_prompt: the stripped text
    wchunks,        \* chunks: textwrap.wrap(text_prompt, width=250)
    \* ---- main window: Generate / Preview and their threads ----
    voice_catalog,      \* the catalog show_main_ui was given
    text_box,           \* content of the text box
    voice_choice,       \* content of the voice Combobox
    status_label,       \* [text, fg] of the status label
    progress_packed,    \* progress bar is shown (pack / pack_forget)
    progress_running,   \* progress bar is animating (start / stop)
    warnings,           \* number of showwarning dialogs shown
    errors,             \* messages of the showerror dialogs shown, in order
    files,              \* the file system: name -> content
    thread              \* per background thread: its position and locals

cvars == <<response, cpc, remote_voices, catalog, printed, escaped>>
wvars == <<wtext, wpc, wprompt, wchunks>>
guivars == <<status_label, progress_packed, progress_running, warnings, errors>>
ovars == <<voice_catalog, text_box, voice_choice, guivars, files, thread>>

\* What no step of the main window changes.
fixed == <<voice_catalog, text_box, voice_choice, response, cpc, remote_voices,
           catalog, printed, escaped, wtext, wpc, wprompt, wchunks>>

vars == <<cvars, wvars, ovars>>

(***************************************************************************)
(* Voice catalog resolver                                                  *)
(***************************************************************************)

\* LOCAL_VOICE_OPTIONS, lines 40-49
LOCAL_VOICE_OPTIONS ==
    << [id |-> "v2/en_speaker_0", name |-> "Deep Male (English)"],
       [id |-> "v2/en_speaker_1", name |-> "Warm Female (English)"],
       [id |-> "v2/en_speaker_2", name |-> "Young Male (English)"],
       [id |-> "v2/en_speaker_3", name |-> "Bright Female (English)"],
       [id |-> "v2/en_speaker_4", name |-> "Calm Narrator (English)"],
       [id |-> "v2/en_speaker_5", name |-> "Energetic Performer (English)"],
       [id |-> "v2/en_speaker_6", name |-> "Cinematic Deep Tone (English)"],
       [id |-> "v2/en_speaker_7", name |-> "Soft Female (English)"] >>

\* Longest remote JSON array that is enumerated.
MaxRemote == 3

\* Objects a remote JSON array may hold: well-formed entries (one repeating a
\* local id, two sharing the id "x", one carrying an extra field) and
\* malformed ones (no name, no id).
RemoteObjects ==
    { [id |-> "v2/en_speaker_0", name |-> "Remote Copy"],
      [id |-> "x", name |-> "X"],
      [id |-> "x", name |-> "X again"],
      [id |-> "y", name |-> "Y", lang |-> "en"],
      [id |-> "z"],
      [name |-> "No Id"] }

SeqsUpTo(S, n) == UNION { [1..k -> S] : k \in 0..n }

\* Outcomes of the HTTP GET: the request raises (connection error, timeout);
\* or a response with a status code whose body is not JSON, is JSON but not
\* an array, or is a JSON array of objects.
Responses ==
    { [kind |-> "raise"] }
    \cup { [kind |-> "resp", status |-> s, body |-> [form |-> f]] :
             s \in {200, 404, 500}, f \in {"invalid", "scalar"} }
    \cup { [kind |-> "resp", status |-> s, body |-> [form |-> "array", data |-> d]] :
             s \in {200, 404}, d \in SeqsUpTo(RemoteObjects, MaxRemote) }

\* Lines 57-60: the body of the try block. Its result is a return value, an
\* exception, or falling through the if.
FetchTryBody(r) ==
    IF r.kind = "raise" THEN [tag |-> "exc"]                 \* requests.get raises
    ELSE IF r.status # 200 THEN [tag |-> "fall"]             \* if resp.status_code == 200
    ELSE IF r.body.form = "invalid" THEN [tag |-> "exc"]     \* resp.json() raises
    ELSE IF r.body.form = "scalar" THEN [tag |-> "exc"]      \* for v in data / v["id"] raises
    ELSE LET data == r.body.data IN
         IF \E i \in 1..Len(data) : ~ ({"id", "name"} \subseteq DOMAIN data[i])
         THEN [tag |-> "exc"]                                \* v["id"] or v["name"]: KeyError
         ELSE [tag |-> "return",
               val |-> [i \in 1..Len(data) |-> [id |-> data[i].id, name |-> data[i].name]]]

\* fetch_community_voices without its except clause: the exception escapes.
fetch_community_voicesNoExcept(r) ==
    LET o == FetchTryBody(r) IN
    IF o.tag = "return" THEN [ret |-> o.val, log |-> <<>>, exc |-> FALSE]
    ELSE IF o.tag = "exc" THEN [ret |-> <<>>, log |-> <<>>, exc |-> TRUE]
    ELSE [ret |-> <<>>, log |-> <<>>, exc |-> FALSE]

\* Lines 54-63: except Exception prints and falls through to return [].
fetch_community_voices(r) ==
    LET o == FetchTryBody(r) IN
    IF o.tag = "return" THEN [ret |-> o.val, log |-> <<>>, exc |-> FALSE]
    ELSE IF o.tag = "exc"
         THEN [ret |-> <<>>, log |-> <<"Unable to fetch community voices">>, exc |-> FALSE]
    ELSE [ret |-> <<>>, log |-> <<>>, exc |-> FALSE]

\* The merge without the filter on local ids.
MergeVoicesNoFilter(local, remote) == local \o remote

\* Lines 72-73: ids of the local list, and the merge.
MergeVoices(local, remote) ==
    LET ids == { local[i].id : i \in 1..Len(local) }
    IN local \o SelectSeq(remote, LAMBDA v : v.id \notin ids)

CatStart ==
    /\ response \in Responses
    /\ cpc = "fetch"
    /\ remote_voices = <<>>
    /\ catalog = <<>>
    /\ printed = <<>>
    /\ escaped = FALSE

\* Line 69: remote_voices = fetch_community_voices()
CatFetch ==
    /\ cpc = "fetch"
    /\ LET f == fetch_community_voices(response) IN
       /\ remote_voices' = f.ret
       /\ printed' = printed \o f.log
       /\ escaped' = f.exc
       /\ cpc' = IF f.exc THEN "done" ELSE "merge"
    /\ UNCHANGED <<response, catalog, wvars, ovars>>

\* Lines 70-74: a non-empty remote list is merged after the local one.
CatMergeRemote ==
    /\ cpc = "merge"
    /\ remote_voices # <<>>
    /\ printed' = Append(printed, "Fetched community voices")
    /\ catalog' = MergeVoices(LOCAL_VOICE_OPTIONS, remote_voices)
    /\ cpc' = "done"
    /\ UNCHANGED <<response, remote_voices, escaped, wvars, ovars>>

\* Lines 75-77: otherwise the local list is returned.
CatLocalOnly ==
    /\ cpc = "merge"
    /\ remote_voices = <<>>
    /\ printed' = Append(printed, "Using local voices only")
    /\ catalog' = LOCAL_VOICE_OPTIONS
    /\ cpc' = "done"
    /\ UNCHANGED <<response, remote_voices, escaped, wvars, ovars>>

CatNext == CatFetch \/ CatMergeRemote \/ CatLocalOnly

\* The resolver when it is not the part under study: not started.
CatIdle ==
    /\ response = [kind |-> "raise"]
    /\ cpc = "fetch"
    /\ remote_voices = <<>>
    /\ catalog = <<>>
    /\ printed = <<>>
    /\ escaped = FALSE


(***************************************************************************)
(* Text splitting: text_box.get(...).strip() and textwrap.wrap(text, 250)  *)
(*                                                                         *)
(* A text is a sequence of one-character strings over letters ("a", "b"),  *)
(* the hyphen and the whitespace characters space, tab and newline.        *)
(* textwrap.wrap is called with its defaults: expand_tabs (tab stops every *)
(* 8 columns), replace_whitespace, drop_whitespace, break_long_words and   *)
(* break_on_hyphens are on; fix_sentence_endings is off; no indents.       *)
(***************************************************************************)

\* width=250, line 163
Width == 250

IsSpace(c) == c \in {" ", "\t", "\n"}
IsLetter(c) == c \in {"a", "b"}

Rep(c, n) == [i \in 1..n |-> c]

MinOf(S) == CHOOSE x \in S : \A y \in S : x <= y

RECURSIVE Flatten(_)
Flatten(ss) == IF ss = <<>> THEN <<>> ELSE Head(ss) \o Flatten(Tail(ss))

RECURSIVE SumLen(_)
SumLen(ss) == IF ss = <<>> THEN 0 ELSE Len(Head(ss)) + SumLen(Tail(ss))

\* chunk.strip() == ''
IsBlank(s) == \A i \in 1..Len(s) : IsSpace(s[i])

RECURSIVE FirstNonSpace(_, _)
FirstNonSpace(s, i) ==
    IF i > Len(s) THEN i ELSE IF IsSpace(s[i]) THEN FirstNonSpace(s, i + 1) ELSE i

RECURSIVE LastNonSpace(_, _)
LastNonSpace(s, i) ==
    IF i < 1 THEN i ELSE IF IsSpace(s[i]) THEN LastNonSpace(s, i - 1) ELSE i

\* The text taken as typed, strip() forgotten.
StripNone(s) == s

\* str.strip(), line 147
Strip(s) == SubSeq(s, FirstNonSpace(s, 1), LastNonSpace(s, Len(s)))

\* TextWrapper._munge_whitespace: str.expandtabs(8), then every whitespace
\* character becomes a space.
RECURSIVE ExpandTabs(_, _, _)
\* s from position i on, expanded; col is the column position i is at.
ExpandTabs(s, i, col) ==
    LET special == { j \in i..Len(s) : s[j] \in {"\t", "\n"} } IN
    IF special = {} THEN SubSeq(s, i, Len(s))
    ELSE LET j == MinOf(special)
             c == col + (j - i)
         IN SubSeq(s, i, j - 1)
            \o (IF s[j] = "\t" THEN Rep(" ", 8 - (c % 8)) ELSE <<" ">>)
            \o ExpandTabs(s, j + 1, 0)

MungeWhitespace(s) == ExpandTabs(s, 1, 0)

\* Character of s at position i, or "" outside s.
At(s, i) == IF i >= 1 /\ i <= Len(s) THEN s[i] ELSE ""

\* Last position of the run of characters equal to c that starts at i.
RunEnd(s, i, c) == MinOf({ j \in i..Len(s) : At(s, j + 1) # c })

\* wordsep_re, second alternative: (?<=wp) -{2,} (?=\w) at position p.
EmDashAt(s, p) ==
    /\ IsLetter(At(s, p - 1))
    /\ At(s, p) = "-"
    /\ At(s, p + 1) = "-"
    /\ IsLetter(At(s, RunEnd(s, p, "-") + 1))

\* wordsep_re, third alternative: the ways the lazy run [^ws]+? may end
\* after its last character q. The result is the end of the match, or 0.
WordEndsAt(s, q) ==
    LET h == q + 1 IN
    IF /\ At(s, h) = "-"
       /\ \/ IsLetter(At(s, h - 2)) /\ IsLetter(At(s, h - 1))
          \/ IsLetter(At(s, h - 3)) /\ At(s, h - 2) = "-" /\ IsLetter(At(s, h - 1))
       /\ IsLetter(At(s, h + 1))
       /\ \/ IsLetter(At(s, h + 2))
          \/ At(s, h + 2) = "-" /\ IsLetter(At(s, h + 3))
    THEN h                                      \* hyphenated word: break after the hyphen
    ELSE IF h > Len(s) \/ At(s, h) = " " THEN q   \* end of word
    ELSE IF IsLetter(At(s, q)) /\ EmDashAt(s, h) THEN q   \* word before an em-dash
    ELSE 0

\* The lazy run stops at the first position where the match can end.
WordEnd(s, p) ==
    WordEndsAt(s, MinOf({ q \in p..Len(s) : WordEndsAt(s, q) # 0 }))

\* End of the wordsep_re match that starts at position p of the munged text.
MatchEnd(s, p) ==
    IF s[p] = " " THEN RunEnd(s, p, " ")
    ELSE IF EmDashAt(s, p) THEN RunEnd(s, p, "-")
    ELSE WordEnd(s, p)

\* TextWrapper._split: the chunks wordsep_re.split yields, empty ones dropped.
RECURSIVE SplitFrom(_, _)
SplitFrom(s, p) ==
    IF p > Len(s) THEN <<>>
    ELSE LET e == MatchEnd(s, p) IN <<SubSeq(s, p, e)>> \o SplitFrom(s, e + 1)

SplitChunks(text) == SplitFrom(MungeWhitespace(text), 1)

\* Number of leading chunks that fit in `room` more characters.
RECURSIVE FitCount(_, _, _)
FitCount(chunks, k, room) ==
    IF k > Len(chunks) THEN k - 1
    ELSE IF Len(chunks[k]) <= room THEN FitCount(chunks, k + 1, room - Len(chunks[k]))
    ELSE k - 1

\* str.rfind("-", 0, n) as a 1-based position, 0 when there is none.
RFindHyphen(chunk, n) ==
    LET at == { p \in 1..n : chunk[p] = "-" }
    IN IF at = {} THEN 0 ELSE CHOOSE p \in at : \A r \in at : r <= p

\* TextWrapper._handle_long_word with break_long_words: how many characters
\* of the chunk go on the current line.
LongWordCut(chunk, space_left) ==
    LET p == IF Len(chunk) > space_left THEN RFindHyphen(chunk, space_left) ELSE 0
    IN IF p > 1 /\ \E i \in 1..(p - 1) : chunk[i] # "-" THEN p ELSE space_left

\* TextWrapper._wrap_chunks: one iteration of the outer loop per line.
RECURSIVE WrapChunks(_, _, _)
WrapChunks(chunks, lines, width) ==
    IF chunks = <<>> THEN lines
    ELSE
      LET c1 == IF IsBlank(Head(chunks)) /\ lines # <<>> THEN Tail(chunks) ELSE chunks
          n == FitCount(c1, 1, width)
          cur == SubSeq(c1, 1, n)
          rest == SubSeq(c1, n + 1, Len(c1))
          long == rest # <<>> /\ Len(Head(rest)) > width
          cut == IF long THEN LongWordCut(Head(rest), width - SumLen(cur)) ELSE 0
          cur2 == IF long THEN Append(cur, SubSeq(Head(rest), 1, cut)) ELSE cur
          rest2 == IF long
                   THEN <<SubSeq(Head(rest), cut + 1, Len(Head(rest)))>> \o Tail(rest)
                   ELSE rest
          cur3 == IF cur2 # <<>> /\ IsBlank(cur2[Len(cur2)])
                  THEN SubSeq(cur2, 1, Len(cur2) - 1) ELSE cur2
          lines2 == IF cur3 # <<>> THEN Append(lines, Flatten(cur3)) ELSE lines
      IN WrapChunks(rest2, lines2, width)

\* textwrap.wrap(text, width), line 163
textwrap_wrap(text, width) == WrapChunks(SplitChunks(text), <<>>, width)

\* Words and separators the texts to split are built from.
WrapWords ==
    { <<"a", "b">>,
      <<"a", "b", "-", "b", "a">>,
      Rep("a", 120),
      Rep("a", 100) \o <<"-">> \o Rep("b", 100),
      Rep("b", Width) }

WrapSeps == { <<" ">>, <<" ", "\n">>, <<"\t">> }

WrapPads == { <<>>, <<"\n", " ">> }

\* Most words in an enumerated text.
MaxWords == 3

RECURSIVE WordTexts(_)
WordTexts(n) ==
    IF n = 1 THEN WrapWords
    ELSE { t \o sep \o w : t \in WordTexts(n - 1), sep \in WrapSeps, w \in WrapWords }

WrapTexts ==
    { <<>>, <<" ">>, <<"\t", "\n">> }
    \cup { l \o t \o r : l \in WrapPads, r \in WrapPads,
                         t \in UNION { WordTexts(n) : n \in 1..MaxWords } }

WrapStart ==
    /\ wtext \in WrapTexts
    /\ wpc = "input"
    /\ wprompt = <<>>
    /\ wchunks = <<>>

WrapIdle ==
    /\ wtext = <<>>
    /\ wpc = "input"
    /\ wprompt = <<>>
    /\ wchunks = <<>>

\* Lines 147-150: empty text after strip() is rejected.
WrapReject ==
    /\ wpc = "input"
    /\ Strip(wtext) = <<>>
    /\ wpc' = "rejected"
    /\ UNCHANGED <<wtext, wprompt, wchunks, cvars, ovars>>

\* Line 147: text_prompt = text_box.get("1.0", tk.END).strip()
WrapAccept ==
    /\ wpc = "input"
    /\ Strip(wtext) # <<>>
    /\ wprompt' = Strip(wtext)
    /\ wpc' = "accepted"
    /\ UNCHANGED <<wtext, wchunks, cvars, ovars>>

\* Line 163: chunks = textwrap.wrap(text_prompt, width=250)
WrapSplit ==
    /\ wpc = "accepted"
    /\ wchunks' = textwrap_wrap(wprompt, Width)
    /\ wpc' = "split"
    /\ UNCHANGED <<wtext, wprompt, cvars, ovars>>

WrapNext == WrapReject \/ WrapAccept \/ WrapSplit


(***************************************************************************)
(* Main window: generate_voice, preview_voice and their worker threads     *)
(***************************************************************************)

\* Background threads that may be started (threading.Thread, lines 193, 229).
Threads == {1, 2}

\* Most "Missing text" warnings shown in a run.
MaxWarnings == 2

\* temp_file, line 214
TempFile == "preview_sample.wav"

\* Paths the save dialog may return; "" is a canceled dialog (line 175).
SavePaths == { "out.wav" }

FileNames == SavePaths \cup { TempFile }

\* sample_text, line 210
SampleText == <<"a", "b", " ", "a">>

\* Catalogs the main window is opened with (line 105): the resolver's result
\* when the fetch fails and when it returns one community voice.
MainResponses ==
    { [kind |-> "raise"],
      [kind |-> "resp", status |-> 200,
       body |-> [form |-> "array", data |-> << [id |-> "x", name |-> "X"] >>]] }

get_voice_catalog(r) ==
    LET remote == fetch_community_voices(r).ret
    IN IF remote # <<>> THEN MergeVoices(LOCAL_VOICE_OPTIONS, remote)
       ELSE LOCAL_VOICE_OPTIONS

\* Texts the user may have typed: empty, whitespace only, one chunk, two chunks.
TextBoxTexts ==
    { <<>>,
      <<" ", "\n">>,
      <<" ", "a", "b", " ", "b", "\n">>,
      Rep("a", 200) \o <<" ">> \o Rep("b", 200) }

\* textwrap.wrap(text, width=250) of the texts above, evaluated once; other
\* texts are wrapped on demand.
WrapTable ==
    [ text \in { Strip(x) : x \in TextBoxTexts } |-> textwrap_wrap(text, Width) ]

SplitText(text) ==
    IF text \in DOMAIN WrapTable THEN WrapTable[text] ELSE textwrap_wrap(text, Width)

\* Names the user may have selected or typed in the Combobox.
VoiceNames == { "Soft Female (English)", "X" }

\* A thread that was not started.
NoThread ==
    [ kind |-> "none", pc |-> "idle",
      selected_name |-> "", voice_model |-> "", text_prompt |-> <<>>,
      chunks |-> <<>>, combined_audio |-> <<>>, final_audio |-> <<>>,
      audio_array |-> <<>>, wave_obj |-> <<>>,
      \* history of the thread, read by the properties only
      calls |-> <<>>,        \* arguments of its generate_audio calls, in order
      failed_at |-> 0,       \* number of the generate_audio call that raised
      prompted |-> FALSE,    \* the save dialog was opened
      wrote |-> "",          \* path it passed to write()
      touched |-> {},        \* files it wrote or read
      outcome |-> "none" ]   \* "saved", "canceled", "previewed", "failed"

\* Lines 153-154, 200-201: first entry with the selected name, else entry 0.
ResolveVoice(cat, name) ==
    LET m == { i \in 1..Len(cat) : cat[i].name = name }
    IN IF m = {} THEN cat[1].id
       ELSE cat[CHOOSE i \in m : \A j \in m : i <= j].id

\* The buffer the k-th generate_audio call of thread t returns: k samples,
\* each tagged with the call that produced it.
AudioOf(t, k) == [j \in 1..k |-> <<t, k, j>>]

\* The buffers joined last to first.
ConcatenateReversed(bufs) ==
    Flatten([i \in 1..Len(bufs) |-> bufs[Len(bufs) + 1 - i]])

\* np.concatenate, line 173
Concatenate(bufs) == Flatten(bufs)

Status(text, fg) == [text |-> text, fg |-> fg]

OrchStart ==
    /\ voice_catalog \in { get_voice_catalog(r) : r \in MainResponses }
    /\ text_box \in TextBoxTexts
    /\ voice_choice \in VoiceNames
    /\ status_label = Status(<<"Idle">>, "gray")      \* line 136
    /\ progress_packed = FALSE                         \* line 141
    /\ progress_running = FALSE
    /\ warnings = 0
    /\ errors = <<>>
    /\ files = [f \in FileNames |-> [exists |-> FALSE, data |-> <<>>]]
    /\ thread = [t \in Threads |-> NoThread]

OrchIdle ==
    /\ voice_catalog = LOCAL_VOICE_OPTIONS
    /\ text_box = <<>>
    /\ voice_choice = ""
    /\ status_label = Status(<<"Idle">>, "gray")
    /\ progress_packed = FALSE
    /\ progress_running = FALSE
    /\ warnings = 0
    /\ errors = <<>>
    /\ files = [f \in FileNames |-> [exists |-> FALSE, data |-> <<>>]]
    /\ thread = [t \in Threads |-> NoThread]

\* Threads are started in the order of their numbers.
IsNextThread(t) ==
    /\ thread[t].pc = "idle"
    /\ \A u \in Threads : u < t => thread[u].pc # "idle"

Set(t, fields) == [thread EXCEPT ![t] = fields @@ thread[t]]

\* Lines 147-150: Generate with no text shows a warning and returns.
GenerateRejected ==
    /\ Strip(text_box) = <<>>
    /\ warnings < MaxWarnings
    /\ warnings' = warnings + 1
    /\ UNCHANGED <<fixed, status_label, progress_packed, progress_running,
                   errors, files, thread>>

\* Lines 147-154, 193: Generate resolves the voice and starts worker.
GenerateStart(t) ==
    /\ Strip(text_box) # <<>>
    /\ IsNextThread(t)
    /\ thread' = Set(t, [ kind |-> "generate", pc |-> "pack",
                          text_prompt |-> Strip(text_box),
                          selected_name |-> voice_choice,
                          voice_model |-> ResolveVoice(voice_catalog, voice_choice) ])
    /\ UNCHANGED <<fixed, guivars, files>>

\* Lines 199-201, 229: Preview resolves the voice and starts worker_preview.
PreviewStart(t) ==
    /\ IsNextThread(t)
    /\ thread' = Set(t, [ kind |-> "preview", pc |-> "pack",
                          selected_name |-> voice_choice,
                          voice_model |-> ResolveVoice(voice_catalog, voice_choice) ])
    /\ UNCHANGED <<fixed, guivars, files>>

\* Lines 158, 205: progress_bar.pack(pady=10)
ShowProgress(t) ==
    /\ thread[t].pc = "pack"
    /\ progress_packed' = TRUE
    /\ thread' = Set(t, [pc |-> "start"])
    /\ UNCHANGED <<fixed, status_label, progress_running, warnings, errors, files>>

\* Lines 159, 206: progress_bar.start(10)
StartProgress(t) ==
    /\ thread[t].pc = "start"
    /\ progress_running' = TRUE
    /\ thread' = Set(t, [pc |-> "status"])
    /\ UNCHANGED <<fixed, status_label, progress_packed, warnings, errors, files>>

\* Lines 160-164: status, then the text is split.
GenSplit(t) ==
    /\ thread[t].kind = "generate"
    /\ thread[t].pc = "status"
    /\ status_label' = Status(<<"Generating voice...">>, "orange")
    /\ thread' = Set(t, [ pc |-> "loop",
                          chunks |-> SplitText(thread[t].text_prompt),
                          combined_audio |-> <<>> ])
    /\ UNCHANGED <<fixed, progress_packed, progress_running, warnings, errors, files>>

\* Index of the chunk the for loop of line 166 is at.
LoopIndex(t) == Len(thread[t].combined_audio) + 1

\* Lines 166-170: one iteration; generate_audio returns a buffer.
GenChunk(t) ==
    /\ thread[t].kind = "generate"
    /\ thread[t].pc = "loop"
    /\ LoopIndex(t) <= Len(thread[t].chunks)
    /\ LET i == LoopIndex(t)
           call == [text |-> thread[t].chunks[i], voice |-> thread[t].voice_model]
           k == Len(thread[t].calls) + 1
       IN /\ status_label' =
                Status(<<"Processing chunk", i, Len(thread[t].chunks)>>, "orange")
          /\ thread' = Set(t, [ calls |-> Append(thread[t].calls, call),
                                combined_audio |->
                                    Append(thread[t].combined_audio, AudioOf(t, k)) ])
    /\ UNCHANGED <<fixed, progress_packed, progress_running, warnings, errors, files>>

\* A loop that carries on after a failed chunk, leaving its audio out.
GenChunkSkipsFailure(t) ==
    /\ thread[t].kind = "generate"
    /\ thread[t].pc = "loop"
    /\ LoopIndex(t) <= Len(thread[t].chunks)
    /\ LET i == LoopIndex(t)
           call == [text |-> thread[t].chunks[i], voice |-> thread[t].voice_model]
           k == Len(thread[t].calls) + 1
       IN /\ status_label' =
                Status(<<"Processing chunk", i, Len(thread[t].chunks)>>, "orange")
          /\ thread' = Set(t, [ calls |-> Append(thread[t].calls, call),
                                failed_at |-> k,
                                combined_audio |-> Append(thread[t].combined_audio, <<>>) ])
    /\ UNCHANGED <<fixed, progress_packed, progress_running, warnings, errors, files>>

\* Lines 166-169: one iteration; generate_audio raises.
GenChunkRaises(t) ==
    /\ thread[t].kind = "generate"
    /\ thread[t].pc = "loop"
    /\ LoopIndex(t) <= Len(thread[t].chunks)
    /\ LET i == LoopIndex(t)
           call == [text |-> thread[t].chunks[i], voice |-> thread[t].voice_model]
           k == Len(thread[t].calls) + 1
       IN /\ status_label' =
                Status(<<"Processing chunk", i, Len(thread[t].chunks)>>, "orange")
          /\ thread' = Set(t, [ pc |-> "except",
                                calls |-> Append(thread[t].calls, call),
                                failed_at |-> k ])
    /\ UNCHANGED <<fixed, progress_packed, progress_running, warnings, errors, files>>

\* Line 173: final_audio = np.concatenate(combined_audio); an empty list
\* raises ValueError.
GenMerge(t) ==
    /\ thread[t].kind = "generate"
    /\ thread[t].pc = "loop"
    /\ LoopIndex(t) > Len(thread[t].chunks)
    /\ thread' = IF thread[t].combined_audio = <<>>
                 THEN Set(t, [pc |-> "except"])
                 ELSE Set(t, [ pc |-> "dialog",
                               final_audio |-> Concatenate(thread[t].combined_audio) ])
    /\ UNCHANGED <<fixed, guivars, files>>

\* Lines 175-182: a path is chosen and the file is written.
GenSave(t, filename) ==
    /\ thread[t].kind = "generate"
    /\ thread[t].pc = "dialog"
    /\ files' = [files EXCEPT ![filename] =
                    [exists |-> TRUE, data |-> thread[t].final_audio]]
    /\ status_label' = Status(<<"Done! Saved to:", filename>>, "green")
    /\ thread' = Set(t, [ pc |-> "stop", prompted |-> TRUE, wrote |-> filename,
                          touched |-> thread[t].touched \cup {filename},
                          outcome |-> "saved" ])
    /\ UNCHANGED <<fixed, progress_packed, progress_running, warnings, errors>>

\* Lines 175-181: a path is chosen and write() raises; the file is left as
\* it was or truncated.
GenSaveRaises(t, filename, truncated) ==
    /\ thread[t].kind = "generate"
    /\ thread[t].pc = "dialog"
    /\ files' = IF truncated
                THEN [files EXCEPT ![filename] = [exists |-> TRUE, data |-> <<>>]]
                ELSE files
    /\ thread' = Set(t, [ pc |-> "except", prompted |-> TRUE, wrote |-> filename,
                          touched |-> thread[t].touched \cup {filename} ])
    /\ UNCHANGED <<fixed, guivars>>

\* Lines 175-184: the dialog is canceled.
GenCancel(t) ==
    /\ thread[t].kind = "generate"
    /\ thread[t].pc = "dialog"
    /\ status_label' = Status(<<"Canceled by user.">>, "gray")
    /\ thread' = Set(t, [pc |-> "stop", prompted |-> TRUE, outcome |-> "canceled"])
    /\ UNCHANGED <<fixed, progress_packed, progress_running, warnings, errors, files>>

\* Lines 207-211: status, then generate_audio returns the sample's buffer.
PrevSynth(t) ==
    /\ thread[t].kind = "preview"
    /\ thread[t].pc = "status"
    /\ status_label' = Status(<<"Previewing:", thread[t].selected_name>>, "orange")
    /\ LET call == [text |-> SampleText, voice |-> thread[t].voice_model]
           k == Len(thread[t].calls) + 1
       IN thread' = Set(t, [ pc |-> "open",
                             calls |-> Append(thread[t].calls, call),
                             audio_array |-> AudioOf(t, k) ])
    /\ UNCHANGED <<fixed, progress_packed, progress_running, warnings, errors, files>>

\* Lines 207-211: status, then generate_audio raises.
PrevSynthRaises(t) ==
    /\ thread[t].kind = "preview"
    /\ thread[t].pc = "status"
    /\ status_label' = Status(<<"Previewing:", thread[t].selected_name>>, "orange")
    /\ LET call == [text |-> SampleText, voice |-> thread[t].voice_model]
           k == Len(thread[t].calls) + 1
       IN thread' = Set(t, [ pc |-> "except",
                             calls |-> Append(thread[t].calls, call),
                             failed_at |-> k ])
    /\ UNCHANGED <<fixed, progress_packed, progress_running, warnings, errors, files>>

\* Line 215: write(temp_file, ...) opens the file, which truncates it.
PrevWriteOpen(t) ==
    /\ thread[t].kind = "preview"
    /\ thread[t].pc = "open"
    /\ files' = [files EXCEPT ![TempFile] = [exists |-> TRUE, data |-> <<>>]]
    /\ thread' = Set(t, [ pc |-> "write", wrote |-> TempFile,
                          touched |-> thread[t].touched \cup {TempFile} ])
    /\ UNCHANGED <<fixed, guivars>>

\* Line 215: write(temp_file, ...) cannot open the file.
PrevWriteRaises(t) ==
    /\ thread[t].kind = "preview"
    /\ thread[t].pc = "open"
    /\ thread' = Set(t, [ pc |-> "except", wrote |-> TempFile,
                          touched |-> thread[t].touched \cup {TempFile} ])
    /\ UNCHANGED <<fixed, guivars, files>>

\* Line 215: write(temp_file, ...) stores the samples and closes the file.
PrevWriteData(t) ==
    /\ thread[t].kind = "preview"
    /\ thread[t].pc = "write"
    /\ files' = [files EXCEPT ![TempFile] =
                    [exists |-> TRUE, data |-> thread[t].audio_array]]
    /\ thread' = Set(t, [pc |-> "play"])
    /\ UNCHANGED <<fixed, guivars>>

\* Lines 216-220: the file is read back and played to its end.
PrevPlay(t) ==
    /\ thread[t].kind = "preview"
    /\ thread[t].pc = "play"
    /\ files[TempFile].data # <<>>
    /\ status_label' = Status(<<"Preview finished:", thread[t].selected_name>>, "green")
    /\ thread' = Set(t, [ pc |-> "stop", wave_obj |-> files[TempFile].data,
                          outcome |-> "previewed" ])
    /\ UNCHANGED <<fixed, progress_packed, progress_running, warnings, errors, files>>

\* Lines 216-218: reading the file (truncated by a writer, say) or playing
\* it raises.
PrevPlayRaises(t) ==
    /\ thread[t].kind = "preview"
    /\ thread[t].pc = "play"
    /\ thread' = Set(t, [pc |-> "except"])
    /\ UNCHANGED <<fixed, guivars, files>>

\* The handler with no finally clause after it: the thread ends there.
HandleExceptionNoFinally(t) ==
    /\ thread[t].pc = "except"
    /\ errors' = Append(errors, [title |-> "Error", thread |-> t])
    /\ status_label' =
         Status(IF thread[t].kind = "generate" THEN <<"Error during generation.">>
                ELSE <<"Error in preview.">>, "red")
    /\ thread' = Set(t, [pc |-> "done", outcome |-> "failed"])
    /\ UNCHANGED <<fixed, progress_packed, progress_running, warnings, files>>

\* Lines 186-188, 222-224: the error dialog and the red status.
HandleException(t) ==
    /\ thread[t].pc = "except"
    /\ errors' = Append(errors, [title |-> "Error", thread |-> t])
    /\ status_label' =
         Status(IF thread[t].kind = "generate" THEN <<"Error during generation.">>
                ELSE <<"Error in preview.">>, "red")
    /\ thread' = Set(t, [pc |-> "stop", outcome |-> "failed"])
    /\ UNCHANGED <<fixed, progress_packed, progress_running, warnings, files>>

\* Lines 190, 226: progress_bar.stop()
StopProgress(t) ==
    /\ thread[t].pc = "stop"
    /\ progress_running' = FALSE
    /\ thread' = Set(t, [pc |-> "forget"])
    /\ UNCHANGED <<fixed, status_label, progress_packed, warnings, errors, files>>

\* Lines 191, 227: progress_bar.pack_forget(); the thread ends.
HideProgress(t) ==
    /\ thread[t].pc = "forget"
    /\ progress_packed' = FALSE
    /\ thread' = Set(t, [pc |-> "done"])
    /\ UNCHANGED <<fixed, status_label, progress_running, warnings, errors, files>>

\* A step of background thread t.
WorkerStep(t) ==
    \/ ShowProgress(t)
    \/ StartProgress(t)
    \/ GenSplit(t)
    \/ GenChunk(t)
    \/ GenChunkRaises(t)
    \/ GenMerge(t)
    \/ \E f \in SavePaths : GenSave(t, f)
    \/ \E f \in SavePaths, tr \in BOOLEAN : GenSaveRaises(t, f, tr)
    \/ GenCancel(t)
    \/ PrevSynth(t)
    \/ PrevSynthRaises(t)
    \/ PrevWriteOpen(t)
    \/ PrevWriteRaises(t)
    \/ PrevWriteData(t)
    \/ PrevPlay(t)
    \/ PrevPlayRaises(t)
    \/ HandleException(t)
    \/ StopProgress(t)
    \/ HideProgress(t)

OrchNext ==
    \/ GenerateRejected
    \/ \E t \in Threads : GenerateStart(t) \/ PreviewStart(t) \/ WorkerStep(t)

(***************************************************************************)
(* Specifications                                                          *)
(***************************************************************************)

\* The voice catalog resolver on every enumerated response.
InitCatalog == CatStart /\ WrapIdle /\ OrchIdle

SpecCatalog == InitCatalog /\ [][CatNext]_vars

\* strip() and textwrap.wrap on every enumerated text.
InitWrap == CatIdle /\ WrapStart /\ OrchIdle

SpecWrap == InitWrap /\ [][WrapNext]_vars

\* The main window: clicks on Generate and Preview and the threads they start.
Init == CatIdle /\ WrapIdle /\ OrchStart

Next == OrchNext

Spec == Init /\ [][Next]_vars

\* A started thread keeps running: every blocking call (generate_audio, the
\* dialogs, playback) returns or raises.
FairSpec == Spec /\ \A t \in Threads : WF_vars(WorkerStep(t))

(***************************************************************************)
(* Claims about the voice catalog resolver (checked under SpecCatalog)     *)
(***************************************************************************)

LocalIds == { LOCAL_VOICE_OPTIONS[i].id : i \in 1..Len(LOCAL_VOICE_OPTIONS) }

\* Indices of R whose id is the id of no local entry.
KeptIndices(R) ==
    { i \in 1..Len(R) : \A j \in 1..Len(LOCAL_VOICE_OPTIONS) :
                           LOCAL_VOICE_OPTIONS[j].id # R[i].id }

\* The k-th smallest member of a finite set of naturals.
KthSmallest(S, k) == CHOOSE i \in S : Cardinality({ j \in S : j < i }) = k - 1

\* C1: for a non-empty remote list R returned by the fetch, the catalog is
\* the local list in its order, followed by exactly the entries of R whose
\* id is no local id, in R's relative order.
C1_MergeOrder ==
    (cpc = "done" /\ ~escaped /\ remote_voices # <<>>) =>
        LET L == LOCAL_VOICE_OPTIONS
            R == remote_voices
            K == KeptIndices(R)
        IN /\ Len(catalog) = Len(L) + Cardinality(K)
           /\ \A i \in 1..Len(L) : catalog[i] = L[i]
           /\ \A k \in 1..Cardinality(K) : catalog[Len(L) + k] = R[KthSmallest(K, k)]

\* A merge in which R holds a copy of a local id between two entries that are
\* kept.
C1_Witness ==
    /\ cpc = "done"
    /\ Len(remote_voices) = 3
    /\ remote_voices[1].id = "y"
    /\ remote_voices[2].id \in LocalIds
    /\ remote_voices[3].id = "x"
    /\ Len(catalog) = Len(LOCAL_VOICE_OPTIONS) + 2

\* The three ways the claim names for a fetch to fail.
FetchFails(r) ==
    \/ r.kind = "raise"
    \/ r.kind = "resp" /\ r.status # 200
    \/ r.kind = "resp" /\ r.body.form = "invalid"

\* C5: when the fetch fails (request exception or timeout, non-200 status,
\* payload that is not JSON), get_voice_catalog returns exactly the local
\* list and no exception reaches the caller.
C5_FetchFailureFallsBack ==
    FetchFails(response) =>
        /\ ~escaped
        /\ cpc = "done" => catalog = LOCAL_VOICE_OPTIONS

C5_Witness ==
    /\ cpc = "done"
    /\ response.kind = "resp"
    /\ response.status = 200
    /\ response.body.form = "invalid"
    /\ catalog = LOCAL_VOICE_OPTIONS
    /\ printed # <<>>

WellFormed(v) == {"id", "name"} \subseteq DOMAIN v

\* C6: when a successfully fetched list holds a malformed entry among
\* well-formed ones, every well-formed entry whose id is no local id is in
\* the resulting catalog.
C6_MalformedSkipped ==
    (/\ cpc = "done"
     /\ response.kind = "resp"
     /\ response.status = 200
     /\ response.body.form = "array") =>
        LET data == response.body.data IN
        \A i \in 1..Len(data) :
            (WellFormed(data[i]) /\ data[i].id \notin LocalIds) =>
                \E k \in 1..Len(catalog) :
                    /\ catalog[k].id = data[i].id
                    /\ catalog[k].name = data[i].name

\* C7: the catalog returned holds no two entries with the same id.
C7_UniqueIds ==
    cpc = "done" =>
        \A i, j \in 1..Len(catalog) : catalog[i].id = catalog[j].id => i = j


(***************************************************************************)
(* Claim about the text splitting (checked under SpecWrap)                 *)
(***************************************************************************)

\* The words of a text: its maximal runs of non-whitespace characters.
WordsOf(s) ==
    LET starts == { i \in 1..Len(s) : ~IsSpace(s[i]) /\ (i = 1 \/ IsSpace(s[i - 1])) }
        ends == { i \in 1..Len(s) : ~IsSpace(s[i]) /\ (i = Len(s) \/ IsSpace(s[i + 1])) }
    IN [k \in 1..Cardinality(starts) |->
            SubSeq(s, KthSmallest(starts, k), KthSmallest(ends, k))]

RECURSIVE JoinWithSpaces(_)
JoinWithSpaces(ss) ==
    IF ss = <<>> THEN <<>>
    ELSE IF Len(ss) = 1 THEN ss[1]
    ELSE ss[1] \o <<" ">> \o JoinWithSpaces(Tail(ss))

\* C4: for an accepted text in which no word is longer than 250, splitting
\* breaks only at whitespace, so the chunks joined with single spaces are
\* the text up to whitespace normalization (the same words in the same
\* order).
C4_JoinReconstructs ==
    (/\ wpc = "split"
     /\ \A k \in 1..Len(WordsOf(wprompt)) : Len(WordsOf(wprompt)[k]) <= Width) =>
        WordsOf(JoinWithSpaces(wchunks)) = WordsOf(wprompt)

(***************************************************************************)
(* Claims about Generate and Preview (checked under Spec and FairSpec)     *)
(***************************************************************************)

InFlight(t) == thread[t].pc \notin {"idle", "done"}

\* C2: when the synthesis of a chunk raises, no later chunk is synthesized,
\* the chunk is not retried or skipped, the save dialog and the write never
\* happen, and the request ends Failed with an error dialog; a write happens
\* only after every chunk was synthesized.
C2_FailedChunkAborts ==
    \A t \in Threads :
        LET th == thread[t] IN
        th.kind = "generate" =>
            /\ th.failed_at # 0 =>
                 /\ th.pc \in {"except", "stop", "forget", "done"}
                 /\ Len(th.calls) = th.failed_at
                 /\ th.failed_at <= Len(th.chunks)
                 /\ \A k \in 1..Len(th.calls) : th.calls[k].text = th.chunks[k]
                 /\ ~th.prompted
                 /\ th.wrote = ""
                 /\ \A f \in FileNames : \A i \in 1..Len(files[f].data) :
                        files[f].data[i][1] # t
                 /\ th.pc \in {"stop", "forget", "done"} =>
                        /\ th.outcome = "failed"
                        /\ \E e \in 1..Len(errors) : errors[e].thread = t
            /\ th.wrote # "" =>
                 /\ th.failed_at = 0
                 /\ Len(th.combined_audio) = Len(th.chunks)
                 /\ Len(th.calls) = Len(th.chunks)

\* A request whose second chunk failed and that has ended.
C2_Witness ==
    \E t \in Threads :
        /\ thread[t].kind = "generate"
        /\ Len(thread[t].chunks) = 2
        /\ thread[t].failed_at = 2
        /\ thread[t].pc = "done"
        /\ thread[t].outcome = "failed"

\* The buffers of calls 1..n of thread t, one after the other.
ExpectedAudio(t, n) ==
    LET total == (n * (n + 1)) \div 2
        callOf(p) == CHOOSE k \in 1..n : ((k - 1) * k) \div 2 < p /\ p <= (k * (k + 1)) \div 2
    IN [p \in 1..total |-> <<t, callOf(p), p - ((callOf(p) - 1) * callOf(p)) \div 2>>]

\* The id of the first catalog entry named `name`, else of the first entry.
IsResolvedVoice(id, name) ==
    \/ \E i \in 1..Len(voice_catalog) :
          /\ voice_catalog[i].name = name
          /\ \A j \in 1..(i - 1) : voice_catalog[j].name # name
          /\ id = voice_catalog[i].id
    \/ /\ \A i \in 1..Len(voice_catalog) : voice_catalog[i].name # name
       /\ id = voice_catalog[1].id

\* C3: when a generate request writes its file, generate_audio was called
\* exactly once per chunk, in chunk order, each time with the resolved voice
\* id, and the buffer written is the returned buffers concatenated in that
\* order.
C3_OneCallPerChunkInOrder ==
    [][ \A t \in Threads :
          (thread[t].pc = "dialog" /\ thread'[t].outcome = "saved") =>
              LET th == thread[t]
                  n == Len(th.chunks)
              IN /\ n >= 1
                 /\ th.chunks = textwrap_wrap(th.text_prompt, Width)
                 /\ Len(th.calls) = n
                 /\ \A k \in 1..n : /\ th.calls[k].text = th.chunks[k]
                                    /\ th.calls[k].voice = th.voice_model
                 /\ IsResolvedVoice(th.voice_model, th.selected_name)
                 /\ \A k \in 1..n : th.combined_audio[k] = AudioOf(t, k)
                 /\ files'[thread'[t].wrote].data = ExpectedAudio(t, n)
      ]_vars

\* A two-chunk request was saved: the file holds the three samples of its
\* two buffers, in order.
C3_Witness ==
    \E t \in Threads :
        /\ thread[t].outcome = "saved"
        /\ Len(thread[t].chunks) = 2
        /\ files["out.wav"].data = << <<t, 1, 1>>, <<t, 2, 1>>, <<t, 2, 2>> >>

\* A click on Generate.
generate_voice == GenerateRejected \/ \E t \in Threads : GenerateStart(t)

\* C8: Generate with empty or whitespace-only text shows a warning and does
\* nothing else: no thread is started, generate_audio is not called, status
\* and progress bar are unchanged, nothing is written.
C8_EmptyTextRejected ==
    [][ (generate_voice /\ IsBlank(text_box)) =>
            /\ warnings' = warnings + 1
            /\ UNCHANGED <<thread, status_label, progress_packed, progress_running,
                           files, errors>>
      ]_vars

\* Whitespace-only text was rejected while a preview was in flight.
C8_Witness ==
    /\ warnings > 0
    /\ text_box # <<>>
    /\ IsBlank(text_box)
    /\ \E t \in Threads : InFlight(t) /\ thread[t].pc = "play"

ReachesEnd(t) == thread[t].pc # "done" /\ thread'[t].pc = "done"

EveryThreadEnds == \A t \in Threads : (thread[t].pc # "idle") ~> (thread[t].pc = "done")

\* C9 as stated: every started thread reaches its end, and at its end the
\* progress bar is stopped and hidden.
C9_EndsStoppedAndHidden ==
    /\ EveryThreadEnds
    /\ [][ \A t \in Threads :
             ReachesEnd(t) => (~progress_running' /\ ~progress_packed') ]_vars

\* C9 as amended: every started thread reaches its end; at its end the
\* progress bar is hidden, and it is stopped if no other thread is in flight
\* at that moment.
C9_EndsHidden ==
    /\ EveryThreadEnds
    /\ [][ \A t \in Threads :
             ReachesEnd(t) =>
                /\ ~progress_packed'
                /\ (\A u \in Threads \ {t} : thread'[u].pc \in {"idle", "done"})
                      => ~progress_running' ]_vars

\* Both threads have ended, one failed and one saved, and the bar is clear.
C9_Witness ==
    /\ \A t \in Threads : thread[t].pc = "done"
    /\ \E t \in Threads : thread[t].outcome = "failed"
    /\ \E t \in Threads : thread[t].outcome = "saved"
    /\ ~progress_running
    /\ ~progress_packed

\* C10: no two threads in flight touch the same file, and a preview plays
\* only samples it wrote itself.
C10_NoSharedFile ==
    /\ \A t, u \in Threads :
          (t # u /\ InFlight(t) /\ InFlight(u)) =>
              thread[t].touched \cap thread[u].touched = {}
    /\ \A t \in Threads : \A i \in 1..Len(thread[t].wave_obj) :
          thread[t].wave_obj[i][1] = t

====
